---- MODULE Spec2Model ----
(* Model of the Firmament coordinator (src/src/engine/coordinator.cc):     *)
(* the resource registry associated_resources_, the message dispatch       *)
(* (HandleRecv / HandleIncomingMessage / HandleRegistrationRequest /       *)
(* HandleHeartbeat), the main loop of Run, HandleSignal and Shutdown.      *)
EXTENDS Integers, Sequences, FiniteSets, TLC

(***************************************************************************)
(* Bounds of the model.                                                    *)
(***************************************************************************)
\* GetCurrentTimestamp() returns values in 0..MaxTime
MaxTime == 2
\* number of receive completions / callbacks the adapter delivers
MaxMsgs == 2
\* number of calls of Shutdown() made from outside Run
MaxShutdownCalls == 1
\* I/O threads of the transport adapter in the asynchronous specification
NumIOThreads == 2

(***************************************************************************)
(* Values carried by messages.                                             *)
(***************************************************************************)
\* msg.uuid() is the string form of a uuid; here a string of hex digits,
\* written as a sequence of characters.  "a" and "A" are two spellings of
\* the same uuid.
UuidStrings == {<<"a">>, <<"A">>, <<"b">>}
Descriptors == {"d1", "d2"}
PlatformIDs == {"PL_UNIX", "PL_OTHER"}

HexDigit(c) ==
  CASE c \in {"a", "A"} -> 10
    [] c \in {"b", "B"} -> 11
    [] OTHER -> 0

RECURSIVE ParseHex(_)
ParseHex(s) ==
  IF s = <<>> THEN 0 ELSE 16 * ParseHex(SubSeq(s, 1, Len(s) - 1)) + HexDigit(s[Len(s)])

\* the parse of every string a message can carry, tabulated
ParsedUuid == [s \in UuidStrings \cup {<<>>} |-> ParseHex(s)]

\* boost::uuids::string_generator: parses the hex digits case-insensitively
gen(s) == ParsedUuid[s]

Uuids == {gen(s) : s \in UuidStrings}

RegistrationMessages == [uuid : UuidStrings, res_desc : Descriptors]
HeartbeatMessages == [uuid : UuidStrings]
\* GetExtension of an extension that is not set gives the default message
NoRegistration == [uuid |-> <<>>, res_desc |-> "unset"]
NoHeartbeat == [uuid |-> <<>>]
BaseMessages ==
  [register_extn : RegistrationMessages \cup {NoRegistration},
   heartbeat_extn : HeartbeatMessages \cup {NoHeartbeat}]

HasExtension(bm, extn) ==
  IF extn = "register_extn" THEN bm.register_extn # NoRegistration
                            ELSE bm.heartbeat_extn # NoHeartbeat

VARIABLES
  platform_id_,           \* constructor argument
  pc,                     \* position of the thread that constructs and runs the coordinator
  exit_,                  \* Coordinator::exit_
  associated_resources_,  \* uuid -> pair (first: descriptor, second: timestamp)
  now,                    \* the clock read by GetCurrentTimestamp()
  listening,              \* adapter: Listen called and StopListen not called since
  callback_registered,    \* adapter: receipt callback installed
  stopListenCalls,        \* adapter: number of StopListen() invocations
  shutdown_log,           \* reasons logged by Shutdown
  sd_pc,                  \* position of an outside caller of Shutdown()
  sdCalls,                \* outside calls of Shutdown() started
  nrecv,                  \* receive completions / callbacks delivered
  last,                   \* the lines the last delivery logged
  undisposed,             \* envelopes handed to HandleRecv and not deleted
  firstDesc,              \* uuid -> descriptor of the first Registration dispatched
  reRegistered,           \* uuids re-registered, later, with another descriptor
  io,                     \* adapter I/O threads running the callback step by step
  aborted,                \* a CHECK failed
  lastRead,               \* uuid -> clock value the last handler run for it read
  other_pc                \* position of the thread running another Coordinator

vars == <<platform_id_, pc, exit_, associated_resources_, now, listening,
          callback_registered, stopListenCalls, shutdown_log, sd_pc, sdCalls,
          nrecv, last, undisposed, firstDesc, reRegistered, io, aborted,
          lastRead, other_pc>>

IOThreads == 1 .. NumIOThreads
IdleThread == [pc |-> "idle", bm |-> [register_extn |-> NoRegistration,
                                     heartbeat_extn |-> NoHeartbeat], rdp |-> {}]

(***************************************************************************)
(* misc/map-util.h                                                         *)
(***************************************************************************)
\* pointer to the value stored under k, or null: the set of at most one key
FindOrNull(m, k) == IF k \in DOMAIN m THEN {k} ELSE {}
\* whether InsertIfNotPresent inserts, and the map it leaves
InsertIfNotPresent(m, k) == k \notin DOMAIN m
Inserted(m, k, v) == IF k \in DOMAIN m THEN m ELSE m @@ (k :> v)


(***************************************************************************)
(* The handlers, as functions of the registry m, the message and the       *)
(* value t that GetCurrentTimestamp() returns.  Each gives the registry    *)
(* it leaves (res), the line it logs (log) and whether its CHECK held.     *)
(***************************************************************************)
LogLine(h, uuid, line) == [h |-> h, uuid |-> uuid, line |-> line]

\* a heartbeat that registers the resource it does not know
HandleHeartbeat_Registers(m, msg, t) ==
  LET uuid == gen(msg.uuid)
      rdp == FindOrNull(m, uuid)
  IN IF rdp = {}
     THEN [res |-> Inserted(m, uuid, [first |-> "unset", second |-> t]), check |-> TRUE,
           log |-> LogLine("HandleHeartbeat", uuid, "HEARTBEAT from UNKNOWN resource")]
     ELSE [res |-> [m EXCEPT ![CHOOSE k \in rdp : TRUE].second = t], check |-> TRUE,
           log |-> LogLine("HandleHeartbeat", uuid, "HEARTBEAT from resource")]

\* a heartbeat that refreshes every record
HandleHeartbeat_TouchesAll(m, msg, t) ==
  LET uuid == gen(msg.uuid)
      rdp == FindOrNull(m, uuid)
  IN IF rdp = {}
     THEN [res |-> m, check |-> TRUE,
           log |-> LogLine("HandleHeartbeat", uuid, "HEARTBEAT from UNKNOWN resource")]
     ELSE [res |-> [k \in DOMAIN m |-> [m[k] EXCEPT !.second = t]], check |-> TRUE,
           log |-> LogLine("HandleHeartbeat", uuid, "HEARTBEAT from resource")]

HandleHeartbeat(m, msg, t) ==
  LET uuid == gen(msg.uuid)
      rdp == FindOrNull(m, uuid)
  IN IF rdp = {}
     THEN [res |-> m, check |-> TRUE,
           log |-> LogLine("HandleHeartbeat", uuid, "HEARTBEAT from UNKNOWN resource")]
     ELSE [res |-> [m EXCEPT ![CHOOSE k \in rdp : TRUE].second = t], check |-> TRUE,
           log |-> LogLine("HandleHeartbeat", uuid, "HEARTBEAT from resource")]

\* a re-registration that stores the new descriptor
HandleRegistrationRequest_Overwrites(m, msg, t) ==
  LET uuid == gen(msg.uuid)
      rdp == FindOrNull(m, uuid)
  IN IF rdp = {}
     THEN [res |-> Inserted(m, uuid, [first |-> msg.res_desc, second |-> t]),
           check |-> InsertIfNotPresent(m, uuid),
           log |-> LogLine("HandleRegistrationRequest", uuid, "REGISTERING NEW RESOURCE")]
     ELSE [res |-> [m EXCEPT ![CHOOSE k \in rdp : TRUE] =
                                  [first |-> msg.res_desc, second |-> t]],
           check |-> TRUE,
           log |-> LogLine("HandleRegistrationRequest", uuid,
                           "REGISTRATION request from resource that we already know about")]

HandleRegistrationRequest(m, msg, t) ==
  LET uuid == gen(msg.uuid)
      rdp == FindOrNull(m, uuid)
  IN IF rdp = {}
     THEN [res |-> Inserted(m, uuid, [first |-> msg.res_desc, second |-> t]),
           check |-> InsertIfNotPresent(m, uuid),
           log |-> LogLine("HandleRegistrationRequest", uuid, "REGISTERING NEW RESOURCE")]
     ELSE [res |-> [m EXCEPT ![CHOOSE k \in rdp : TRUE].second = t], check |-> TRUE,
           log |-> LogLine("HandleRegistrationRequest", uuid,
                           "REGISTRATION request from resource that we already know about")]

\* a dispatcher that tests for the heartbeat first
HandleIncomingMessage_HeartbeatFirst(m, bm, tReg, tHb) ==
  LET r1 == IF HasExtension(bm, "heartbeat_extn")
            THEN LET r == HandleHeartbeat(m, bm.heartbeat_extn, tReg)
                 IN [res |-> r.res, check |-> r.check, log |-> <<r.log>>]
            ELSE [res |-> m, check |-> TRUE, log |-> <<>>]
  IN IF r1.check /\ HasExtension(bm, "register_extn")
     THEN LET r == HandleRegistrationRequest(r1.res, bm.register_extn, tHb)
          IN [res |-> r.res, check |-> r.check, log |-> Append(r1.log, r.log)]
     ELSE r1

\* a dispatcher that takes the heartbeat extension without testing for it
HandleIncomingMessage_UntestedHeartbeat(m, bm, tReg, tHb) ==
  LET r1 == IF HasExtension(bm, "register_extn")
            THEN LET r == HandleRegistrationRequest(m, bm.register_extn, tReg)
                 IN [res |-> r.res, check |-> r.check, log |-> <<r.log>>]
            ELSE [res |-> m, check |-> TRUE, log |-> <<>>]
  IN IF r1.check
     THEN LET r == HandleHeartbeat(r1.res, bm.heartbeat_extn, tHb)
          IN [res |-> r.res, check |-> r.check, log |-> Append(r1.log, r.log)]
     ELSE r1

\* The dispatcher: tReg and tHb are the clock values the two handlers read.
\* A failed CHECK aborts the process, so nothing after it runs.
HandleIncomingMessage(m, bm, tReg, tHb) ==
  LET r1 == IF HasExtension(bm, "register_extn")
            THEN LET r == HandleRegistrationRequest(m, bm.register_extn, tReg)
                 IN [res |-> r.res, check |-> r.check, log |-> <<r.log>>]
            ELSE [res |-> m, check |-> TRUE, log |-> <<>>]
  IN IF r1.check /\ HasExtension(bm, "heartbeat_extn")
     THEN LET r == HandleHeartbeat(r1.res, bm.heartbeat_extn, tHb)
          IN [res |-> r.res, check |-> r.check, log |-> Append(r1.log, r.log)]
     ELSE r1

\* bookkeeping: the descriptor of the first Registration dispatched for a uuid
NoteDispatched(bm) ==
  IF HasExtension(bm, "register_extn") /\ firstDesc[gen(bm.register_extn.uuid)] = "none"
  THEN [firstDesc EXCEPT ![gen(bm.register_extn.uuid)] = bm.register_extn.res_desc]
  ELSE firstDesc

\* bookkeeping: a Registration for a uuid that has a record, carrying another
\* descriptor than the stored one, at a later time than the stored one
NoteReRegistered(bm) ==
  LET uuid == gen(bm.register_extn.uuid)
  IN IF /\ HasExtension(bm, "register_extn")
        /\ uuid \in DOMAIN associated_resources_
        /\ associated_resources_[uuid].first # bm.register_extn.res_desc
        /\ associated_resources_[uuid].second < now
     THEN reRegistered \cup {uuid}
     ELSE reRegistered

\* lastRead of a uuid no handler has read the clock for
NeverRead == 0 - 1

\* bookkeeping: the values the handlers of one dispatch get from
\* GetCurrentTimestamp().  HandleRegistrationRequest reads the clock on both
\* of its branches, HandleHeartbeat only when it finds a record.
NoteClockRead(bm, tReg, tHb) ==
  LET reg == HasExtension(bm, "register_extn")
      afterReg == IF reg THEN [lastRead EXCEPT ![gen(bm.register_extn.uuid)] = tReg]
                         ELSE lastRead
      hbUuid == gen(bm.heartbeat_extn.uuid)
      found == \/ hbUuid \in DOMAIN associated_resources_
               \/ reg /\ gen(bm.register_extn.uuid) = hbUuid
  IN IF HasExtension(bm, "heartbeat_extn") /\ found
     THEN [afterReg EXCEPT ![hbUuid] = tHb]
     ELSE afterReg

(***************************************************************************)
(* The transport adapter delivers once Run has installed the callback.     *)
(***************************************************************************)
AdapterDelivers == ~aborted /\ callback_registered /\ nrecv < MaxMsgs

\* dt is how far the clock moves between the two handlers' reads of it
ClockStep(bm, dt) ==
  /\ now + dt <= MaxTime
  /\ dt # 0 => HasExtension(bm, "register_extn") /\ HasExtension(bm, "heartbeat_extn")

\* a receive handler that dispatches whatever the error code says
HandleRecv_IgnoresError(error, env, dt) ==
  /\ AdapterDelivers
  /\ ClockStep(env, dt)
  /\ nrecv' = nrecv + 1
  /\ LET r == HandleIncomingMessage(associated_resources_, env, now, now + dt)
     IN /\ associated_resources_' = r.res
        /\ aborted' = ~r.check
        /\ now' = now + dt
        /\ firstDesc' = NoteDispatched(env)
        /\ reRegistered' = NoteReRegistered(env)
        /\ lastRead' = NoteClockRead(env, now, now + dt)
        /\ last' = r.log
        /\ undisposed' = IF r.check THEN undisposed ELSE undisposed + 1
  /\ UNCHANGED <<platform_id_, pc, exit_, listening, callback_registered,
                 stopListenCalls, shutdown_log, sd_pc, sdCalls, io, other_pc>>

\* HandleRecv(error, bytes_transferred, env)
HandleRecv(error, env, dt) ==
  /\ AdapterDelivers
  /\ ClockStep(env, dt)
  /\ nrecv' = nrecv + 1
  /\ IF error
     THEN /\ last' = <<LogLine("HandleRecv", 0,
                              "Asynchronous receive call returned an error")>>
          /\ undisposed' = undisposed + 1
          /\ UNCHANGED <<associated_resources_, now, firstDesc, reRegistered, aborted,
                         lastRead>>
     ELSE LET r == HandleIncomingMessage(associated_resources_, env, now, now + dt)
          IN /\ associated_resources_' = r.res
             /\ aborted' = ~r.check
             /\ now' = now + dt
             /\ firstDesc' = NoteDispatched(env)
             /\ reRegistered' = NoteReRegistered(env)
             /\ lastRead' = NoteClockRead(env, now, now + dt)
             /\ last' = r.log
             /\ undisposed' = IF r.check THEN undisposed ELSE undisposed + 1
  /\ UNCHANGED <<platform_id_, pc, exit_, listening, callback_registered,
                 stopListenCalls, shutdown_log, sd_pc, sdCalls, io, other_pc>>

\* The callback Run installs: the adapter calls HandleIncomingMessage(bm).
ReceiptCallback(bm, dt) ==
  /\ AdapterDelivers
  /\ ClockStep(bm, dt)
  /\ nrecv' = nrecv + 1
  /\ LET r == HandleIncomingMessage(associated_resources_, bm, now, now + dt)
     IN /\ associated_resources_' = r.res
        /\ aborted' = ~r.check
        /\ now' = now + dt
        /\ firstDesc' = NoteDispatched(bm)
        /\ reRegistered' = NoteReRegistered(bm)
        /\ lastRead' = NoteClockRead(bm, now, now + dt)
        /\ last' = r.log
  /\ UNCHANGED <<platform_id_, pc, exit_, listening, callback_registered, undisposed,
                 stopListenCalls, shutdown_log, sd_pc, sdCalls, io, other_pc>>

\* time passes
Tick ==
  /\ ~aborted
  /\ now < MaxTime
  /\ now' = now + 1
  /\ UNCHANGED <<platform_id_, pc, exit_, associated_resources_, listening,
                 callback_registered, stopListenCalls, shutdown_log, sd_pc, sdCalls,
                 nrecv, last, undisposed, firstDesc, reRegistered, io, aborted,
                 lastRead, other_pc>>

(***************************************************************************)
(* The thread that constructs the coordinator and calls Run.               *)
(***************************************************************************)
At(p) == ~aborted /\ pc = p

MainUnchanged == UNCHANGED <<platform_id_, associated_resources_, now, sd_pc, sdCalls,
                             nrecv, last, undisposed, firstDesc, reRegistered, io, aborted,
                             lastRead, other_pc>>

\* a constructor whose switch accepts every platform
Coordinator_AnyPlatform ==
  /\ At("ctor")
  /\ pc' = "constructed"
  /\ UNCHANGED <<exit_, listening, callback_registered, stopListenCalls, shutdown_log>>
  /\ MainUnchanged

\* Coordinator::Coordinator: the platform switch
Coordinator ==
  /\ At("ctor")
  /\ pc' = IF platform_id_ = "PL_UNIX" THEN "constructed" ELSE "fatal"
  /\ UNCHANGED <<exit_, listening, callback_registered, stopListenCalls, shutdown_log>>
  /\ MainUnchanged

\* Run: m_adapter_->Listen(FLAGS_listen_uri)
RunListen ==
  /\ At("constructed")
  /\ listening' = TRUE
  /\ pc' = "listened"
  /\ UNCHANGED <<exit_, callback_registered, stopListenCalls, shutdown_log>>
  /\ MainUnchanged

\* Run: m_adapter_->RegisterAsyncMessageReceiptCallback(...)
RunRegisterCallback ==
  /\ At("listened")
  /\ callback_registered' = TRUE
  /\ pc' = "looptop"
  /\ UNCHANGED <<exit_, listening, stopListenCalls, shutdown_log>>
  /\ MainUnchanged

\* a loop that never looks at the flag
LoopTop_IgnoresExit ==
  /\ At("looptop")
  /\ pc' = "body"
  /\ UNCHANGED <<exit_, listening, callback_registered, stopListenCalls, shutdown_log>>
  /\ MainUnchanged

\* Run: while (!exit_)
LoopTop ==
  /\ At("looptop")
  /\ pc' = IF exit_ THEN "shutdown" ELSE "body"
  /\ UNCHANGED <<exit_, listening, callback_registered, stopListenCalls, shutdown_log>>
  /\ MainUnchanged

\* Run: the loop body calls AwaitNextMessage(), which calls the adapter's
CallAwait ==
  /\ At("body")
  /\ pc' = "await"
  /\ UNCHANGED <<exit_, listening, callback_registered, stopListenCalls, shutdown_log>>
  /\ MainUnchanged

\* AwaitNextMessage: the adapter's wait and the one-second sleep return,
\* back to the loop top
AwaitReturn ==
  /\ At("await")
  /\ pc' = "looptop"
  /\ UNCHANGED <<exit_, listening, callback_registered, stopListenCalls, shutdown_log>>
  /\ MainUnchanged

(***************************************************************************)
(* Shutdown(reason): logs the reason and stops listening, then sets exit_. *)
(***************************************************************************)
ShutdownStopListen(reason) ==
  /\ shutdown_log' = shutdown_log \cup {reason}
  /\ stopListenCalls' = stopListenCalls + 1
  /\ listening' = FALSE

\* a Shutdown that toggles the flag
ShutdownSetExit_Toggles == exit_' = ~exit_

ShutdownSetExit == exit_' = TRUE

\* Run: Shutdown("dropped out of main loop"), up to StopListen
RunShutdown ==
  /\ At("shutdown")
  /\ ShutdownStopListen("dropped out of main loop")
  /\ pc' = "shutdown_exit"
  /\ UNCHANGED <<exit_, callback_registered>>
  /\ MainUnchanged

\* Run: the rest of Shutdown, and Run returns
RunShutdownExit ==
  /\ At("shutdown_exit")
  /\ ShutdownSetExit
  /\ pc' = "stopped"
  /\ UNCHANGED <<listening, callback_registered, stopListenCalls, shutdown_log>>
  /\ MainUnchanged

Run == \/ RunListen \/ RunRegisterCallback \/ LoopTop \/ CallAwait
       \/ AwaitReturn \/ RunShutdown \/ RunShutdownExit

(***************************************************************************)
(* The environment: a signal, and a caller of Shutdown other than Run.     *)
(***************************************************************************)
\* the constructor has installed the handlers and the process is alive
Constructed == ~aborted /\ pc \notin {"ctor", "fatal"}

EnvUnchanged == UNCHANGED <<platform_id_, pc, associated_resources_, now,
                            callback_registered, nrecv, last, undisposed, firstDesc, reRegistered,
                            io, aborted, lastRead, other_pc>>

\* HandleSignal, on SIGINT or SIGTERM
HandleSignal ==
  /\ Constructed
  /\ exit_' = TRUE
  /\ UNCHANGED <<listening, stopListenCalls, shutdown_log, sd_pc, sdCalls>>
  /\ EnvUnchanged

\* another thread calls Shutdown(reason): up to StopListen
ShutdownCall ==
  /\ Constructed
  /\ sd_pc = "idle"
  /\ sdCalls < MaxShutdownCalls
  /\ ShutdownStopListen("requested")
  /\ sd_pc' = "set_exit"
  /\ sdCalls' = sdCalls + 1
  /\ UNCHANGED exit_
  /\ EnvUnchanged

\* ... and the rest of that call
ShutdownCallExit ==
  /\ ~aborted
  /\ sd_pc = "set_exit"
  /\ ShutdownSetExit
  /\ sd_pc' = "idle"
  /\ UNCHANGED <<listening, stopListenCalls, shutdown_log, sdCalls>>
  /\ EnvUnchanged

(***************************************************************************)
(* The single-flow specification: the adapter delivers one completion at a *)
(* time, so each handler runs to its end before the next one starts.       *)
(***************************************************************************)
Init ==
  /\ platform_id_ \in PlatformIDs
  /\ pc = "ctor"
  /\ exit_ = FALSE
  /\ associated_resources_ = <<>>
  /\ now = 0
  /\ listening = FALSE
  /\ callback_registered = FALSE
  /\ stopListenCalls = 0
  /\ shutdown_log = {}
  /\ sd_pc = "idle"
  /\ sdCalls = 0
  /\ nrecv = 0
  /\ last = <<>>
  /\ undisposed = 0
  /\ firstDesc = [u \in Uuids |-> "none"]
  /\ reRegistered = {}
  /\ io = [t \in IOThreads |-> IdleThread]
  /\ aborted = FALSE
  /\ lastRead = [u \in Uuids |-> NeverRead]
  /\ other_pc = "none"

Deliver ==
  \E bm \in BaseMessages, dt \in 0 .. 1 :
    \/ \E error \in BOOLEAN : HandleRecv(error, bm, dt)
    \/ ReceiptCallback(bm, dt)

Next == Coordinator \/ Run \/ HandleSignal \/ ShutdownCall \/ ShutdownCallExit
        \/ Tick \/ Deliver

Spec == Init /\ [][Next]_vars

\* Run's thread keeps running: every wait returns
FairSpec == Spec /\ WF_vars(Run)

(***************************************************************************)
(* The coordinator while nobody asks it to stop: no signal arrives and     *)
(* nobody calls Shutdown, so exit_ stays false and Run stays in its loop.  *)
(* HandleSignal and Shutdown write exit_ and the adapter's listening state *)
(* only; the registry is touched by the deliveries alone.                  *)
(***************************************************************************)
NextRunning == Coordinator \/ RunListen \/ RunRegisterCallback \/ LoopTop \/ CallAwait
               \/ AwaitReturn \/ Tick \/ Deliver

SpecRunning == Init /\ [][NextRunning]_vars

(***************************************************************************)
(* The asynchronous specification: the adapter's I/O threads call the      *)
(* installed callback, HandleIncomingMessage, each on its own thread, and  *)
(* the coordinator takes no lock.  A handler is then two steps, the        *)
(* look-up (FindOrNull) and the insert or update through the pointer.      *)
(***************************************************************************)
AsyncUnchanged == UNCHANGED <<platform_id_, pc, exit_, listening, callback_registered,
                              stopListenCalls, shutdown_log, sd_pc, sdCalls, last,
                              undisposed, other_pc>>

\* where HandleIncomingMessage goes next on a thread that has done `done`
NextHandler(bm, done) ==
  IF done = "none" /\ HasExtension(bm, "register_extn") THEN "reg_find"
  ELSE IF done # "heartbeat" /\ HasExtension(bm, "heartbeat_extn") THEN "hb_find"
  ELSE "idle"

\* an I/O thread enters HandleIncomingMessage(bm)
AsyncCallback(t, bm) ==
  /\ AdapterDelivers
  /\ io[t].pc = "idle"
  /\ nrecv' = nrecv + 1
  /\ firstDesc' = NoteDispatched(bm)
  /\ reRegistered' = NoteReRegistered(bm)
  /\ io' = [io EXCEPT ![t] = [pc |-> NextHandler(bm, "none"), bm |-> bm, rdp |-> {}]]
  /\ UNCHANGED <<associated_resources_, now, aborted, lastRead>>
  /\ AsyncUnchanged

\* HandleRegistrationRequest: rdp = FindOrNull(associated_resources_, uuid)
AsyncRegistrationFind(t) ==
  /\ ~aborted
  /\ io[t].pc = "reg_find"
  /\ io' = [io EXCEPT ![t].pc = "reg_apply",
                      ![t].rdp = FindOrNull(associated_resources_,
                                            gen(io[t].bm.register_extn.uuid))]
  /\ UNCHANGED <<associated_resources_, now, nrecv, firstDesc, reRegistered, aborted,
                 lastRead>>
  /\ AsyncUnchanged

\* HandleRegistrationRequest: CHECK(InsertIfNotPresent(...)) or rdp->second = now
AsyncRegistrationApply(t) ==
  LET msg == io[t].bm.register_extn
      uuid == gen(msg.uuid)
  IN /\ ~aborted
     /\ io[t].pc = "reg_apply"
     /\ IF io[t].rdp = {}
        THEN /\ associated_resources_' =
                  Inserted(associated_resources_, uuid,
                           [first |-> msg.res_desc, second |-> now])
             /\ aborted' = ~InsertIfNotPresent(associated_resources_, uuid)
        ELSE /\ associated_resources_' =
                  [associated_resources_ EXCEPT ![uuid].second = now]
             /\ UNCHANGED aborted
     /\ lastRead' = [lastRead EXCEPT ![uuid] = now]
     /\ io' = [io EXCEPT ![t].pc = NextHandler(io[t].bm, "registration"), ![t].rdp = {}]
     /\ UNCHANGED <<now, nrecv, firstDesc, reRegistered>>
     /\ AsyncUnchanged

\* HandleHeartbeat: rdp = FindOrNull(associated_resources_, uuid)
AsyncHeartbeatFind(t) ==
  /\ ~aborted
  /\ io[t].pc = "hb_find"
  /\ io' = [io EXCEPT ![t].pc = "hb_apply",
                      ![t].rdp = FindOrNull(associated_resources_,
                                            gen(io[t].bm.heartbeat_extn.uuid))]
  /\ UNCHANGED <<associated_resources_, now, nrecv, firstDesc, reRegistered, aborted,
                 lastRead>>
  /\ AsyncUnchanged

\* HandleHeartbeat: the warning, or rdp->second = now
AsyncHeartbeatApply(t) ==
  /\ ~aborted
  /\ io[t].pc = "hb_apply"
  /\ associated_resources_' =
       IF io[t].rdp = {} THEN associated_resources_
       ELSE [associated_resources_ EXCEPT ![gen(io[t].bm.heartbeat_extn.uuid)].second = now]
  /\ lastRead' =
       IF io[t].rdp = {} THEN lastRead
       ELSE [lastRead EXCEPT ![gen(io[t].bm.heartbeat_extn.uuid)] = now]
  /\ io' = [io EXCEPT ![t] = IdleThread]
  /\ UNCHANGED <<now, nrecv, firstDesc, reRegistered, aborted>>
  /\ AsyncUnchanged

AsyncDeliver ==
  \E t \in IOThreads :
    \/ \E bm \in BaseMessages : AsyncCallback(t, bm)
    \/ AsyncRegistrationFind(t)
    \/ AsyncRegistrationApply(t)
    \/ AsyncHeartbeatFind(t)
    \/ AsyncHeartbeatApply(t)

NextAsync == Coordinator \/ Run \/ HandleSignal \/ Tick \/ AsyncDeliver

SpecAsync == Init /\ [][NextAsync]_vars

\* the handlers in progress on the I/O threads
InHandler == {t \in IOThreads : io[t].pc # "idle"}

(***************************************************************************)
(* The registry after some resources have registered: the state left by    *)
(* Registrations dispatched at time 0, Run being in its loop.  nrecv       *)
(* counts the deliveries from here on.                                     *)
(***************************************************************************)
\* the registries that Registrations dispatched at time 0 leave
RegistriesAtZero ==
  UNION {[D -> [first : Descriptors, second : {0}]] : D \in SUBSET Uuids}

InitRegistered ==
  /\ platform_id_ = "PL_UNIX"
  /\ pc = "await"
  /\ exit_ = FALSE
  /\ associated_resources_ \in RegistriesAtZero
  /\ now = 0
  /\ listening = TRUE
  /\ callback_registered = TRUE
  /\ stopListenCalls = 0
  /\ shutdown_log = {}
  /\ sd_pc = "idle"
  /\ sdCalls = 0
  /\ nrecv = 0
  /\ last = <<>>
  /\ undisposed = 0
  /\ firstDesc = [u \in Uuids |-> IF u \in DOMAIN associated_resources_
                                   THEN associated_resources_[u].first ELSE "none"]
  /\ reRegistered = {}
  /\ io = [t \in IOThreads |-> IdleThread]
  /\ aborted = FALSE
  /\ lastRead = [u \in Uuids |-> IF u \in DOMAIN associated_resources_
                                  THEN 0 ELSE NeverRead]
  /\ other_pc = "none"

NextRegistered == Tick \/ Deliver

SpecRegistered == InitRegistered /\ [][NextRegistered]_vars

(***************************************************************************)
(* The process: exit_ is a static member, so a second Coordinator of the   *)
(* same process, run by another thread, reads and writes the same flag.    *)
(* Its adapter is its own.                                                 *)
(***************************************************************************)
OtherUnchanged == UNCHANGED <<platform_id_, pc, associated_resources_, now, listening,
                              callback_registered, stopListenCalls, shutdown_log, sd_pc,
                              sdCalls, nrecv, last, undisposed, firstDesc, reRegistered,
                              io, aborted, lastRead>>

\* the other Coordinator is constructed and its Run reaches the loop
OtherCoordinator ==
  /\ ~aborted
  /\ other_pc = "none"
  /\ other_pc' = "looptop"
  /\ UNCHANGED exit_
  /\ OtherUnchanged

\* its Run: while (!exit_)
OtherLoopTop ==
  /\ ~aborted
  /\ other_pc = "looptop"
  /\ other_pc' = IF exit_ THEN "shutdown" ELSE "await"
  /\ UNCHANGED exit_
  /\ OtherUnchanged

\* its Run: AwaitNextMessage() returns
OtherAwaitReturn ==
  /\ ~aborted
  /\ other_pc = "await"
  /\ other_pc' = "looptop"
  /\ UNCHANGED exit_
  /\ OtherUnchanged

\* its Run: Shutdown("dropped out of main loop") on its own adapter
OtherShutdown ==
  /\ ~aborted
  /\ other_pc = "shutdown"
  /\ ShutdownSetExit
  /\ other_pc' = "stopped"
  /\ OtherUnchanged

OtherRun == OtherCoordinator \/ OtherLoopTop \/ OtherAwaitReturn \/ OtherShutdown

\* one envelope of each combination of payload kinds
OneOfEachKind ==
  {bm \in BaseMessages :
     /\ bm.register_extn \in {NoRegistration, [uuid |-> <<"a">>, res_desc |-> "d1"]}
     /\ bm.heartbeat_extn \in {NoHeartbeat, [uuid |-> <<"a">>]}}

\* the deliveries to this Coordinator, the clock standing still
DeliverOneOfEach ==
  \E bm \in OneOfEachKind :
    \/ \E error \in BOOLEAN : HandleRecv(error, bm, 0)
    \/ ReceiptCallback(bm, 0)

NextProcess == Coordinator \/ Run \/ HandleSignal \/ ShutdownCall \/ ShutdownCallExit
               \/ OtherRun \/ DeliverOneOfEach

SpecProcess == Init /\ [][NextProcess]_vars

(***************************************************************************)
(* Properties.                                                             *)
(***************************************************************************)
RegistrationOnly ==
  {bm \in BaseMessages :
     HasExtension(bm, "register_extn") /\ ~HasExtension(bm, "heartbeat_extn")}
HeartbeatOnly ==
  {bm \in BaseMessages :
     ~HasExtension(bm, "register_extn") /\ HasExtension(bm, "heartbeat_extn")}
BothKinds ==
  {bm \in BaseMessages :
     HasExtension(bm, "register_extn") /\ HasExtension(bm, "heartbeat_extn")}

\* this step is a delivery of envelope bm that reaches the dispatcher, the
\* clock moving by dt between the handlers
Dispatches(bm, dt) ==
  /\ nrecv' = nrecv + 1
  /\ now' = now + dt
  /\ lastRead' = NoteClockRead(bm, now, now + dt)
  /\ (HandleRecv(FALSE, bm, dt) \/ ReceiptCallback(bm, dt))

\* C1: the descriptor stored for an identity is the one carried by the first
\* Registration dispatched for it, and a Registration for an identity that
\* has a record (d1, t1) leaves the record (d1, t2), t2 being the time read.
C1_DescriptorNeverReplaced ==
  /\ [](\A u \in DOMAIN associated_resources_ :
          associated_resources_[u].first = firstDesc[u])
  /\ [][\A bm \in RegistrationOnly :
          (/\ gen(bm.register_extn.uuid) \in DOMAIN associated_resources_
           /\ Dispatches(bm, 0))
          => associated_resources_'[gen(bm.register_extn.uuid)] =
               [first |-> associated_resources_[gen(bm.register_extn.uuid)].first,
                second |-> now]]_vars

\* a record that was re-registered, later, with another descriptor and whose
\* time stamp is that of the re-registration
C1_Witness ==
  \E u \in reRegistered :
    /\ last = <<LogLine("HandleRegistrationRequest", u,
                        "REGISTRATION request from resource that we already know about")>>
    /\ associated_resources_[u].second = now
    /\ now > 0

\* C2: a Heartbeat for an identity without a record leaves the registry as
\* it is, logs the unknown-resource warning, and stops nothing.
C2_UnknownHeartbeatNoChange ==
  [][\A bm \in HeartbeatOnly :
       (/\ gen(bm.heartbeat_extn.uuid) \notin DOMAIN associated_resources_
        /\ Dispatches(bm, 0))
       => /\ associated_resources_' = associated_resources_
          /\ last' = <<LogLine("HandleHeartbeat", gen(bm.heartbeat_extn.uuid),
                               "HEARTBEAT from UNKNOWN resource")>>
          /\ ~aborted'
          /\ pc' = pc
          /\ exit_' = exit_]_vars

\* an unknown-resource heartbeat was dispatched while another resource is registered
C2_Witness ==
  \E u \in Uuids :
    /\ last = <<LogLine("HandleHeartbeat", u, "HEARTBEAT from UNKNOWN resource")>>
    /\ u \notin DOMAIN associated_resources_
    /\ DOMAIN associated_resources_ # {}

\* C3: an envelope with both kinds runs the Registration handler once, then
\* the Heartbeat handler once; for an identity unknown before and carried by
\* both, the heartbeat is not "unknown" and the record is (registration
\* descriptor, heartbeat time).
C3_RegistrationBeforeHeartbeat ==
  [][\A bm \in BothKinds, dt \in 0 .. 1 :
       Dispatches(bm, dt)
       => /\ Len(last') = 2
          /\ last'[1].h = "HandleRegistrationRequest"
          /\ last'[2].h = "HandleHeartbeat"
          /\ (/\ gen(bm.register_extn.uuid) = gen(bm.heartbeat_extn.uuid)
              /\ gen(bm.register_extn.uuid) \notin DOMAIN associated_resources_)
             => /\ last'[2].line = "HEARTBEAT from resource"
                /\ associated_resources_'[gen(bm.register_extn.uuid)] =
                     [first |-> bm.register_extn.res_desc, second |-> now + dt]]_vars

\* the only delivery so far registered a resource and then took its heartbeat
C3_Witness ==
  \E u \in Uuids :
    /\ nrecv = 1
    /\ last = <<LogLine("HandleRegistrationRequest", u, "REGISTERING NEW RESOURCE"),
                LogLine("HandleHeartbeat", u, "HEARTBEAT from resource")>>
    /\ u \in DOMAIN associated_resources_
    /\ associated_resources_[u].second = now
    /\ now > 0

\* C4: whenever shutdown is called, StopListen is invoked exactly once over
\* the whole run: never twice, and once by the time Run has returned.
C4_StopListenExactlyOnce ==
  /\ stopListenCalls <= 1
  /\ pc = "stopped" => stopListenCalls = 1

\* C5: once the flag is set during the main loop, the next loop-top check
\* leaves the loop, no wait other than the one in flight or about to be
\* called is started, and Run reaches its end if every wait returns.
C5_LoopExitsWithinOneWait ==
  /\ [][(exit_ /\ pc = "looptop") => pc' \in {"looptop", "shutdown"}]_vars
  /\ [][(exit_ /\ pc = "await") => pc' \in {"await", "looptop"}]_vars
  /\ (exit_ /\ pc \in {"looptop", "body", "await"}) ~> (pc = "stopped")

\* the flag was set, by a signal, while a wait is in flight
C5_Witness == exit_ /\ pc = "await" /\ sdCalls = 0

\* C6: the shutdown actions (StopListen, the reason logged) never happen
\* while the loop is in its body, between a loop-top check that did not see
\* the flag and the next one.
C6_ShutdownOnlyAfterLoopTop ==
  [][(pc = "body" \/ pc = "await")
       => /\ stopListenCalls' = stopListenCalls
          /\ shutdown_log' = shutdown_log]_vars

\* C7: the identities with a record are exactly those for which a
\* Registration has been dispatched, each with one record.
C7_RecordsAreRegistrations ==
  /\ DOMAIN associated_resources_ = {u \in Uuids : firstDesc[u] # "none"}
  /\ \A u \in DOMAIN associated_resources_ :
       /\ associated_resources_[u].first \in Descriptors
       /\ associated_resources_[u].second \in 0 .. MaxTime

\* one identity registered, and a heartbeat from the other one was dispatched
C7_Witness ==
  \E u \in Uuids :
    /\ last = <<LogLine("HandleHeartbeat", u, "HEARTBEAT from UNKNOWN resource")>>
    /\ firstDesc[u] = "none"
    /\ Cardinality(DOMAIN associated_resources_) = 1
    /\ nrecv = MaxMsgs

\* C8: no two handler invocations are in progress at the same time
C8_OneHandlerAtATime == Cardinality(InHandler) <= 1

\* C9: every envelope handed to HandleRecv has been deleted when it returns
C9_EveryEnvelopeDisposed == undisposed = 0

\* C10: a receive that completes with an error is dropped: no handler runs,
\* the registry and the flag stay as they are, and the loop and the
\* callback stay in place.
C10_ReceiveErrorDropped ==
  [][nrecv' = nrecv + 1 =>
       \A env \in BaseMessages :
         HandleRecv(TRUE, env, 0)
         => /\ associated_resources_' = associated_resources_
            /\ firstDesc' = firstDesc
            /\ \A i \in 1 .. Len(last') : last'[i].h = "HandleRecv"
            /\ exit_' = exit_
            /\ pc' = pc
            /\ callback_registered'
            /\ ~aborted']_vars

\* a receive failed, and a later message was dispatched and registered a resource
C10_Witness ==
  /\ undisposed > 0
  /\ \E u \in DOMAIN associated_resources_ :
       last = <<LogLine("HandleRegistrationRequest", u, "REGISTERING NEW RESOURCE")>>

\* C11: with a platform other than PL_UNIX the constructor is fatal and the
\* coordinator never starts: Listen is never called, no callback is
\* registered, nothing is dispatched, and Run is never entered.
C11_UnsupportedPlatformFatal ==
  platform_id_ # "PL_UNIX"
  => /\ pc \in {"ctor", "fatal"}
     /\ ~listening
     /\ ~callback_registered
     /\ nrecv = 0
     /\ stopListenCalls = 0
     /\ associated_resources_ = <<>>

\* the constructor has hit LOG(FATAL) for an unsupported platform
C11_Witness == platform_id_ = "PL_OTHER" /\ pc = "fatal"

\* the positions of Run inside its main loop
InLoop == {"looptop", "body", "await"}

\* C12: after a successful startup nothing that happens in the loop ends
\* the process (no CHECK fails), and Run leaves its loop only by the
\* loop-top test reading the flag as set.
C12_InLoopConditionsNotFatal ==
  [][/\ ~aborted'
     /\ (pc \in InLoop /\ pc' \notin InLoop)
        => (pc = "looptop" /\ exit_ /\ pc' = "shutdown")]_vars

\* C13: the lifecycle takes the transitions INIT -> LISTENING -> {AWAIT <->
\* DISPATCH} -> SHUTTING_DOWN -> STOPPED only: Listen is called from INIT and
\* before any wait or dispatch, a dispatch is a step taken from AWAIT that
\* returns to AWAIT, the shutdown actions (StopListen, the reason logged)
\* happen in SHUTTING_DOWN alone, which is entered from the loop-top test,
\* and STOPPED is left by no step.
C13_LifecycleTransitions ==
  [][/\ (listening' /\ ~listening) => pc = "constructed"
     /\ (pc' = "await" \/ nrecv' # nrecv) => callback_registered
     /\ nrecv' # nrecv => (pc = "await" /\ pc' = "await")
     /\ pc' = "shutdown" => pc \in {"looptop", "shutdown"}
     /\ (stopListenCalls' # stopListenCalls \/ shutdown_log' # shutdown_log)
        => pc = "shutdown"
     /\ pc = "stopped" => pc' = "stopped"]_vars

\* C14: a Heartbeat for an identity that has a record (d, t) leaves it the
\* record (d, now) and leaves every other record, and the set of identities
\* with a record, as they were.
C14_HeartbeatUpdatesOnlyTimestamp ==
  [][\A bm \in HeartbeatOnly :
       (/\ gen(bm.heartbeat_extn.uuid) \in DOMAIN associated_resources_
        /\ Dispatches(bm, 0))
       => /\ DOMAIN associated_resources_' = DOMAIN associated_resources_
          /\ associated_resources_'[gen(bm.heartbeat_extn.uuid)] =
               [first |-> associated_resources_[gen(bm.heartbeat_extn.uuid)].first,
                second |-> now]
          /\ \A v \in DOMAIN associated_resources_ \ {gen(bm.heartbeat_extn.uuid)} :
               associated_resources_'[v] = associated_resources_[v]]_vars

\* two resources registered at time 0; the only delivery since was, later, a
\* heartbeat from one of them, whose record alone has the later time
C14_Witness ==
  \E u \in DOMAIN associated_resources_ :
    /\ nrecv = 1
    /\ last = <<LogLine("HandleHeartbeat", u, "HEARTBEAT from resource")>>
    /\ now > 0
    /\ associated_resources_[u] = [first |-> firstDesc[u], second |-> now]
    /\ \E v \in DOMAIN associated_resources_ \ {u} :
         associated_resources_[v].second = 0

\* the envelope that carries neither kind
EmptyEnvelope == [register_extn |-> NoRegistration, heartbeat_extn |-> NoHeartbeat]

\* C15: dispatching an envelope that carries neither a Registration nor a
\* Heartbeat runs no handler and changes neither the registry nor the flag
\* nor the lifecycle state, and no CHECK fails.
C15_EmptyEnvelopeNoOp ==
  [][Dispatches(EmptyEnvelope, 0)
       => /\ last' = <<>>
          /\ associated_resources_' = associated_resources_
          /\ firstDesc' = firstDesc
          /\ lastRead' = lastRead
          /\ exit_' = exit_
          /\ pc' = pc
          /\ listening' = listening
          /\ callback_registered'
          /\ ~aborted']_vars

\* a resource is registered and the last delivery, the second, logged nothing
C15_Witness ==
  /\ nrecv = 2
  /\ last = <<>>
  /\ undisposed = 0
  /\ DOMAIN associated_resources_ # {}

\* C16: on the new-resource branch the CHECKed insert succeeds: no record
\* for the uuid appears between a look-up that found none and the insert
\* that follows it, and so no CHECK ever fails.
C16_InsertAfterLookupSucceeds ==
  /\ ~aborted
  /\ \A t \in IOThreads :
       (io[t].pc = "reg_apply" /\ io[t].rdp = {})
       => InsertIfNotPresent(associated_resources_, gen(io[t].bm.register_extn.uuid))

\* C17: for an identity that has a record, a Registration is an implicit
\* heartbeat: whatever descriptor it carries and whatever the time, it
\* leaves the registry exactly as a Heartbeat for that identity at that time
\* leaves it, as functions of the registry and as dispatched.
C17_RegistrationIsImplicitHeartbeat ==
  /\ [](\A msg \in RegistrationMessages, t \in 0 .. MaxTime :
          gen(msg.uuid) \in DOMAIN associated_resources_
          => HandleRegistrationRequest(associated_resources_, msg, t).res =
               HandleHeartbeat(associated_resources_, [uuid |-> msg.uuid], t).res)
  /\ [][\A bm \in RegistrationOnly :
          (/\ gen(bm.register_extn.uuid) \in DOMAIN associated_resources_
           /\ Dispatches(bm, 0))
          => associated_resources_' =
               HandleHeartbeat(associated_resources_,
                               [uuid |-> bm.register_extn.uuid], now).res]_vars

\* of two registered resources one was re-registered, later and with another
\* descriptor, by the only delivery made
C17_Witness ==
  \E u \in reRegistered :
    /\ nrecv = 1
    /\ last = <<LogLine("HandleRegistrationRequest", u,
                        "REGISTRATION request from resource that we already know about")>>
    /\ Cardinality(DOMAIN associated_resources_) = 2
    /\ associated_resources_[u] = [first |-> firstDesc[u], second |-> now]

\* C18: the flag starts false, no step clears it once it is set, and it is
\* one flag for the process: a loop-top test made after it was set, by the
\* Run of this Coordinator or of another one, leaves the loop.
C18_ExitFlagMonotone ==
  /\ ~exit_
  /\ [][exit_ => exit_']_vars
  /\ [][(exit_ /\ pc = "looptop" /\ pc' # pc) => pc' = "shutdown"]_vars
  /\ [][(exit_ /\ other_pc = "looptop" /\ other_pc' # other_pc)
          => other_pc' = "shutdown"]_vars

\* a signal set the flag while this Coordinator's Run was waiting, and the
\* other Coordinator's loop-top test has seen it
C18_Witness ==
  /\ exit_
  /\ sdCalls = 0
  /\ pc = "await"
  /\ other_pc = "shutdown"

\* C19: once Run has returned (the loop has exited and StopListen has been
\* invoked) no handler runs and the registry stays as it is.
C19_RegistryFrozenAfterStopped ==
  [][pc = "stopped"
       => /\ associated_resources_' = associated_resources_
          /\ nrecv' = nrecv]_vars

\* C20: the clock never going backwards, the timestamp of a record never
\* decreases over the dispatches, a record once there stays, and the
\* timestamp is always the clock value that the most recent Registration
\* or Heartbeat handler run for that identity read.
C20_TimestampFollowsClock ==
  /\ [](\A u \in DOMAIN associated_resources_ :
          /\ associated_resources_[u].second = lastRead[u]
          /\ associated_resources_[u].second <= now)
  /\ [][now' >= now
        => \A u \in DOMAIN associated_resources_ :
             /\ u \in DOMAIN associated_resources_'
             /\ associated_resources_'[u].second >= associated_resources_[u].second]_vars

\* a registered resource sent, later, one envelope with a Registration and
\* a Heartbeat, and the clock moved between the two handlers
C20_Witness ==
  \E u \in DOMAIN associated_resources_ :
    /\ nrecv = 2
    /\ last = <<LogLine("HandleRegistrationRequest", u,
                        "REGISTRATION request from resource that we already know about"),
                LogLine("HandleHeartbeat", u, "HEARTBEAT from resource")>>
    /\ now = MaxTime
    /\ lastRead[u] = now
    /\ associated_resources_[u].second = now
====
